---- MODULE Spec2Model ----
(***************************************************************************)
(* Model of the TMP121/TMP123 / OSENSA FTX 101 driver (src/src/comms.rs,   *)
(* src/src/error.rs).                                                      *)
(*                                                                         *)
(* Temperatures are f64 values of the form n * 0.0625 with n an i16; the   *)
(* product is exact in binary floating point, so a temperature is          *)
(* represented by the integer n, its value in sixteenths of a degree       *)
(* Celsius (150.0 degrees C is 2400).                                      *)
(***************************************************************************)
EXTENDS Integers, Sequences, FiniteSets, TLC

VARIABLES
    osensa,   \* build configuration: is the "osensa" feature enabled
    calls,    \* number of driver calls made on the handle so far
    bus,      \* what the transport has seen: one entry per transaction
    op,       \* name of the last driver operation called
    xfer,     \* outcome the transport gave to the last transaction
    words,    \* the local buffer `words` of the last call
    steps,    \* functions the last call invoked, in order
    ret       \* value the last call returned

vars == <<osensa, calls, bus, op, xfer, words, steps, ret>>

----------------------------------------------------------------------------
(* Bounds of the model *)

\* number of calls made on one handle in Spec
MaxCalls == 3

----------------------------------------------------------------------------
(* 8 and 16 bit unsigned arithmetic *)

U16 == 0..65535

RECURSIVE BitAnd(_, _)
BitAnd(a, b) ==
    IF a = 0 \/ b = 0 THEN 0
    ELSE (a % 2) * (b % 2) + 2 * BitAnd(a \div 2, b \div 2)

RECURSIVE BitOr(_, _)
BitOr(a, b) ==
    IF a = 0 THEN b
    ELSE IF b = 0 THEN a
    ELSE (IF a % 2 = 1 \/ b % 2 = 1 THEN 1 ELSE 0)
         + 2 * BitOr(a \div 2, b \div 2)

RECURSIVE Pow2(_)
Pow2(k) == IF k = 0 THEN 1 ELSE 2 * Pow2(k - 1)

\* x >> k on an unsigned value
Shr(x, k) == x \div Pow2(k)

\* u16::from_be_bytes
from_be_bytes(bytes) == bytes[1] * 256 + bytes[2]

\* u16::to_be_bytes, used to put a register word on the wire
to_be_bytes(w) == <<w \div 256, w % 256>>

\* `x as i16` for x : u16 (two's-complement reinterpretation)
AsI16(x) == IF x >= 32768 THEN x - 65536 ELSE x

\* `x as u8` for x : u16 (truncation)
AsU8(x) == x % 256

----------------------------------------------------------------------------
(* Result and Error values *)

Ok(v)  == [tag |-> "Ok", val |-> v]
Err(e) == [tag |-> "Err", err |-> e]

ErrSpi(e)             == [kind |-> "Spi", inner |-> e]
ErrInvalidMeasurement == [kind |-> "InvalidMeasurement"]
ErrNoProbe            == [kind |-> "NoProbe"]
ErrDeviceError        == [kind |-> "DeviceError"]

LedCurrentLevel ==
    {"Under500", "Range500To1000", "Range1000To2000", "Over2000", "Unknown"}

OsensaReading(t, l) == [temperature |-> t, led_current |-> l]

----------------------------------------------------------------------------
(* The word decoders *)

\* mutant: shifts by 2, keeping the padding bit D2 in the value
convert_words_shift2(w) ==
    LET all_bits    == from_be_bytes(w)
        is_negative == BitAnd(all_bits, \h8000) > 1
        sign_mask   == IF is_negative THEN \hF000 ELSE \h0000
        temperature == AsI16(BitOr(Shr(BitAnd(all_bits, \h7FFF), 2), sign_mask))
    IN  temperature

\* mutant: the sign bit is dropped and never extended
convert_words_unsigned(w) ==
    LET all_bits    == from_be_bytes(w)
        temperature == AsI16(Shr(BitAnd(all_bits, \h7FFF), 3))
    IN  temperature

convert_words(w) ==
    LET all_bits    == from_be_bytes(w)
        is_negative == BitAnd(all_bits, \h8000) > 1
        sign_mask   == IF is_negative THEN \hF000 ELSE \h0000
        temperature == AsI16(BitOr(Shr(BitAnd(all_bits, \h7FFF), 3), sign_mask))
    IN  temperature

\* the `match led_bits` of convert_words_osensa
LedOf(led_bits) ==
    CASE led_bits = 0 -> "Under500"
      [] led_bits = 1 -> "Range500To1000"
      [] led_bits = 2 -> "Range1000To2000"
      [] led_bits = 3 -> "Over2000"
      [] OTHER        -> "Unknown"

\* mutant: the confirmation bit is tested before the two sentinel words
convert_words_osensa_cfm_first(w) ==
    LET all_bits == from_be_bytes(w)
        is_valid == BitAnd(all_bits, \h0004) # 0
        led_bits == AsU8(BitAnd(all_bits, \h0003))
    IN  IF ~is_valid THEN Err(ErrInvalidMeasurement)
        ELSE IF all_bits = \h0000 THEN Err(ErrNoProbe)
        ELSE IF all_bits = \h7FF8 THEN Err(ErrDeviceError)
        ELSE Ok(<<convert_words(w), LedOf(led_bits)>>)

\* mutant: the temperature is shifted out of the word without sign handling
convert_words_osensa_own_temp(w) ==
    LET all_bits == from_be_bytes(w)
        is_valid == BitAnd(all_bits, \h0004) # 0
        led_bits == AsU8(BitAnd(all_bits, \h0003))
    IN  IF all_bits = \h0000 THEN Err(ErrNoProbe)
        ELSE IF all_bits = \h7FF8 THEN Err(ErrDeviceError)
        ELSE IF ~is_valid THEN Err(ErrInvalidMeasurement)
        ELSE Ok(<<AsI16(Shr(all_bits, 3)), LedOf(led_bits)>>)

\* mutant: the LED field is masked with 0x0007 and takes the CFM bit along
convert_words_osensa_led_mask7(w) ==
    LET all_bits == from_be_bytes(w)
        is_valid == BitAnd(all_bits, \h0004) # 0
        led_bits == AsU8(BitAnd(all_bits, \h0007))
    IN  IF all_bits = \h0000 THEN Err(ErrNoProbe)
        ELSE IF all_bits = \h7FF8 THEN Err(ErrDeviceError)
        ELSE IF ~is_valid THEN Err(ErrInvalidMeasurement)
        ELSE Ok(<<convert_words(w), LedOf(led_bits)>>)

\* mutant: the sentinels are compared on the temperature field only
convert_words_osensa_field_sentinel(w) ==
    LET all_bits == from_be_bytes(w)
        is_valid == BitAnd(all_bits, \h0004) # 0
        led_bits == AsU8(BitAnd(all_bits, \h0003))
    IN  IF BitAnd(all_bits, \hFFF8) = \h0000 THEN Err(ErrNoProbe)
        ELSE IF BitAnd(all_bits, \hFFF8) = \h7FF8 THEN Err(ErrDeviceError)
        ELSE IF ~is_valid THEN Err(ErrInvalidMeasurement)
        ELSE Ok(<<convert_words(w), LedOf(led_bits)>>)

convert_words_osensa(w) ==
    LET all_bits == from_be_bytes(w)
        is_valid == BitAnd(all_bits, \h0004) # 0
        led_bits == AsU8(BitAnd(all_bits, \h0003))
    IN  IF all_bits = \h0000 THEN Err(ErrNoProbe)
        ELSE IF all_bits = \h7FF8 THEN Err(ErrDeviceError)
        ELSE IF ~is_valid THEN Err(ErrInvalidMeasurement)
        ELSE Ok(<<convert_words(w), LedOf(led_bits)>>)

----------------------------------------------------------------------------
(* The transport (embedded_hal SpiDevice) *)

\* Operation::Read(&mut words) with words : [u8; 2]
ReadOp == [kind |-> "Read", len |-> 2]

\* outcomes of SpiDevice::transaction on a single read of two bytes
XferOk(data) == [tag |-> "Ok", data |-> data]
XferErr(e)   == [tag |-> "Err", err |-> e]

\* values of the transport's associated error type SPI::Error
SpiErrors == {"Overrun", "ModeFault"}

\* register words used by the unit tests, in each setting of bits D2..D0
TestWords ==
    { f + l : f \in { \h4B00, \h3E80, \h0C80, \h0008, \h0000,
                      \hFFF8, \hF380, \hE480, \h7FF8 },
              l \in 0..7 }

SensorResponses ==
    { XferOk(to_be_bytes(w)) : w \in TestWords } \cup { XferErr(e) : e \in SpiErrors }

AllResponses ==
    { XferOk(to_be_bytes(w)) : w \in U16 } \cup { XferErr(e) : e \in SpiErrors }

----------------------------------------------------------------------------
(* The driver handle Tmp12x.  A handler is a function of the build feature *)
(* and of what the transport answers; it yields the returned value, the    *)
(* final content of its buffer, the transactions it issued and the         *)
(* functions it invoked.                                                   *)

\* mutant: the transport error is ignored and the zeroed buffer is decoded
get_reading_ignore_error(feature, resp) ==
    LET buf == IF resp.tag = "Ok" THEN resp.data ELSE <<0, 0>>
    IN  IF feature
        THEN LET r == convert_words_osensa(buf)
             IN  [ret   |-> IF r.tag = "Err" THEN r ELSE Ok(r.val[1]),
                  words |-> buf, txns |-> <<(<<ReadOp>>)>>,
                  steps |-> <<"transaction", "convert_words_osensa">>]
        ELSE [ret   |-> Ok(convert_words(buf)),
              words |-> buf, txns |-> <<(<<ReadOp>>)>>,
              steps |-> <<"transaction", "convert_words">>]

\* mutant: the plain decoder is used whatever the build feature
get_reading_always_plain(feature, resp) ==
    LET buf == IF resp.tag = "Ok" THEN resp.data ELSE <<0, 0>>
    IN  IF resp.tag = "Err"
        THEN [ret   |-> Err(ErrSpi(resp.err)),
              words |-> buf, txns |-> <<(<<ReadOp>>)>>,
              steps |-> <<"transaction">>]
        ELSE [ret   |-> Ok(convert_words(buf)),
              words |-> buf, txns |-> <<(<<ReadOp>>)>>,
              steps |-> <<"transaction", "convert_words">>]

get_reading(feature, resp) ==
    LET buf == IF resp.tag = "Ok" THEN resp.data ELSE <<0, 0>>
    IN  IF resp.tag = "Err"
        THEN [ret   |-> Err(ErrSpi(resp.err)),
              words |-> buf, txns |-> <<(<<ReadOp>>)>>,
              steps |-> <<"transaction">>]
        ELSE IF feature
        THEN LET r == convert_words_osensa(buf)
             IN  [ret   |-> IF r.tag = "Err" THEN r ELSE Ok(r.val[1]),
                  words |-> buf, txns |-> <<(<<ReadOp>>)>>,
                  steps |-> <<"transaction", "convert_words_osensa">>]
        ELSE [ret   |-> Ok(convert_words(buf)),
              words |-> buf, txns |-> <<(<<ReadOp>>)>>,
              steps |-> <<"transaction", "convert_words">>]

\* mutant: a failed transaction is issued a second time before giving up
get_osensa_reading_retry(resp) ==
    LET buf == IF resp.tag = "Ok" THEN resp.data ELSE <<0, 0>>
    IN  IF resp.tag = "Err"
        THEN [ret   |-> Err(ErrSpi(resp.err)),
              words |-> buf, txns |-> <<(<<ReadOp>>), (<<ReadOp>>)>>,
              steps |-> <<"transaction", "transaction">>]
        ELSE LET r == convert_words_osensa(buf)
             IN  [ret   |-> IF r.tag = "Err" THEN r
                            ELSE Ok(OsensaReading(r.val[1], r.val[2])),
                  words |-> buf, txns |-> <<(<<ReadOp>>)>>,
                  steps |-> <<"transaction", "convert_words_osensa">>]

get_osensa_reading(resp) ==
    LET buf == IF resp.tag = "Ok" THEN resp.data ELSE <<0, 0>>
    IN  IF resp.tag = "Err"
        THEN [ret   |-> Err(ErrSpi(resp.err)),
              words |-> buf, txns |-> <<(<<ReadOp>>)>>,
              steps |-> <<"transaction">>]
        ELSE LET r == convert_words_osensa(buf)
             IN  [ret   |-> IF r.tag = "Err" THEN r
                            ELSE Ok(OsensaReading(r.val[1], r.val[2])),
                  words |-> buf, txns |-> <<(<<ReadOp>>)>>,
                  steps |-> <<"transaction", "convert_words_osensa">>]

----------------------------------------------------------------------------
(* State machine *)

\* Tmp12x::new: a handle that has made no call yet, in either build
Init ==
    /\ osensa \in BOOLEAN
    /\ calls = 0
    /\ bus = <<>>
    /\ op = "none"
    /\ xfer = [tag |-> "None"]
    /\ words = <<0, 0>>
    /\ steps = <<>>
    /\ ret = [tag |-> "None"]

\* a call of get_reading, the transport answering one of `responses`
GetReading(responses) ==
    \E resp \in responses :
        LET r == get_reading(osensa, resp)
        IN  /\ op' = "get_reading"
            /\ xfer' = resp
            /\ calls' = calls + 1
            /\ bus' = bus \o r.txns
            /\ words' = r.words
            /\ steps' = r.steps
            /\ ret' = r.ret
            /\ UNCHANGED osensa

\* a call of get_osensa_reading, which exists in the osensa build only
GetOsensaReading(responses) ==
    /\ osensa
    /\ \E resp \in responses :
        LET r == get_osensa_reading(resp)
        IN  /\ op' = "get_osensa_reading"
            /\ xfer' = resp
            /\ calls' = calls + 1
            /\ bus' = bus \o r.txns
            /\ words' = r.words
            /\ steps' = r.steps
            /\ ret' = r.ret
            /\ UNCHANGED osensa

\* up to MaxCalls calls on one handle, the sensor holding test words
Next ==
    \/ calls < MaxCalls /\ GetReading(SensorResponses)
    \/ calls < MaxCalls /\ GetOsensaReading(SensorResponses)

Spec == Init /\ [][Next]_vars

\* one call on a fresh handle, the sensor holding any 16-bit word
NextAllWords ==
    \/ calls = 0 /\ GetReading(AllResponses)
    \/ calls = 0 /\ GetOsensaReading(AllResponses)

SpecAllWords == Init /\ [][NextAllWords]_vars

----------------------------------------------------------------------------
(* Reference notions the properties are stated with *)

\* the register word the transport delivered to the last call
Word == from_be_bytes(xfer.data)

\* the last call got a word from the transport
GotWord == op # "none" /\ xfer.tag = "Ok"

\* two's-complement value of the 13-bit field D15..D3 of a word
Signed13(w) ==
    LET field == w \div 8
    IN  IF field >= 4096 THEN field - 8192 ELSE field

\* bit D2 of a word
Bit2(w) == (w \div 4) % 2

\* a word with its bits D2..D0 replaced by low
WithLow3(w, low) == (w - (w % 8)) + low

\* a word with its bits D1..D0 replaced by low
WithLow2(w, low) == (w - (w % 4)) + low

\* the temperature carried by a successful return of the last call
TempOf(r) == IF op = "get_osensa_reading" THEN r.val.temperature ELSE r.val

\* what is left of a get_osensa_reading result once the LED level is dropped
DropLed(r) == IF r.tag = "Ok" THEN Ok(r.val.temperature) ELSE r

\* whole degrees Celsius in sixteenths
Deg(d) == d * 16

----------------------------------------------------------------------------
(* Properties *)

\* C1: in the plain build get_reading succeeds on every word read and
\* returns the signed value of the 13-bit field D15..D3 (the signed 16-bit
\* word arithmetically shifted right by 3), in sixteenths of a degree; bits
\* D2..D0 have no influence; the eight datasheet values decode as tabulated.
C1_PlainDecode ==
    (~osensa /\ GotWord /\ op = "get_reading") =>
        /\ ret.tag = "Ok"
        /\ ret.val = Signed13(Word)
        /\ ret.val = AsI16(Word) \div 8
        /\ \A low \in 0..7 :
              convert_words(to_be_bytes(WithLow3(Word, low))) = ret.val
        /\ (Word = \h4B00 => ret.val = Deg(150))
        /\ (Word = \h3E80 => ret.val = Deg(125))
        /\ (Word = \h0C80 => ret.val = Deg(25))
        /\ (Word = \h0008 => ret.val = 1)
        /\ (Word = \h0000 => ret.val = 0)
        /\ (Word = \hFFF8 => ret.val = -1)
        /\ (Word = \hF380 => ret.val = Deg(-25))
        /\ (Word = \hE480 => ret.val = Deg(-55))

C1_Witness ==
    /\ ~osensa /\ op = "get_reading"
    /\ xfer = XferOk(<<\hE4, \h85>>)
    /\ ret = Ok(Deg(-55))

\* C2: the extended decode gives every word the outcome of the first rule
\* that matches: 0x0000 NoProbe, 0x7FF8 DeviceError, D2 clear
\* InvalidMeasurement, otherwise success with the LED level of D1..D0; a
\* fault carries no temperature.
C2_ExtendedClassification ==
    (osensa /\ GotWord /\ op = "get_osensa_reading") =>
        /\ Word = \h0000 => ret = Err(ErrNoProbe)
        /\ Word = \h7FF8 => ret = Err(ErrDeviceError)
        /\ (Word # \h0000 /\ Word # \h7FF8 /\ Bit2(Word) = 0) =>
              ret = Err(ErrInvalidMeasurement)
        /\ (Word # \h0000 /\ Word # \h7FF8 /\ Bit2(Word) = 1) =>
              /\ ret.tag = "Ok"
              /\ Word % 4 = 0 => ret.val.led_current = "Under500"
              /\ Word % 4 = 1 => ret.val.led_current = "Range500To1000"
              /\ Word % 4 = 2 => ret.val.led_current = "Range1000To2000"
              /\ Word % 4 = 3 => ret.val.led_current = "Over2000"
        /\ ret.tag \in {"Ok", "Err"}
        /\ ret.tag = "Err" =>
              /\ DOMAIN ret = {"tag", "err"}
              /\ ret.err \in {ErrNoProbe, ErrDeviceError, ErrInvalidMeasurement}

C2_Witness ==
    /\ osensa /\ op = "get_osensa_reading"
    /\ xfer = XferOk(<<\h0C, \h85>>)
    /\ ret = Ok(OsensaReading(Deg(25), "Range500To1000"))

\* C3: a successful extended decode returns the plain decode of the same
\* word, and the extended decode of the word under each of the four
\* settings of D1..D0 returns that same temperature.
C3_ExtendedTemperatureIsPlain ==
    (osensa /\ GotWord /\ ret.tag = "Ok") =>
        /\ TempOf(ret) = convert_words(xfer.data)
        /\ TempOf(ret) = Signed13(Word)
        /\ \A low \in 0..3 :
              LET r == convert_words_osensa(to_be_bytes(WithLow2(Word, low)))
              IN  r.tag = "Ok" /\ r.val[1] = TempOf(ret)

C3_Witness ==
    /\ osensa /\ op = "get_osensa_reading"
    /\ xfer = XferOk(<<\hF3, \h86>>)
    /\ ret = Ok(OsensaReading(Deg(-25), "Range1000To2000"))

\* C4: when the transaction fails with e the call returns Error::Spi(e)
\* with that same e and runs no decoder, in both builds and both operations.
C4_TransportFailureSurfaces ==
    (op # "none" /\ xfer.tag = "Err") =>
        /\ ret = Err(ErrSpi(xfer.err))
        /\ steps = <<"transaction">>

C4_Witness ==
    /\ osensa /\ op = "get_reading" /\ calls = 2
    /\ xfer = XferErr("ModeFault")
    /\ ret = Err(ErrSpi("ModeFault"))

\* C5: after k calls the transport has seen exactly k transactions, each a
\* single read of two bytes, whatever the calls returned.
C5_OneTransactionPerCall ==
    /\ Len(bus) = calls
    /\ \A i \in 1..Len(bus) : bus[i] = <<ReadOp>>
    /\ op # "none" =>
          Len(SelectSeq(steps, LAMBDA f : f = "transaction")) = 1

C5_Witness ==
    /\ calls = 3 /\ Len(bus) = 3
    /\ op = "get_osensa_reading"
    /\ ret = Err(ErrSpi("Overrun"))

\* C6: in the extended build, on the same word, get_reading returns what
\* get_osensa_reading returns with the LED level dropped: the same
\* temperature on success and the same fault otherwise.
C6_SameOutcomeSurface ==
    (osensa /\ GotWord) =>
        /\ op = "get_reading" =>
              /\ ret = DropLed(get_osensa_reading(xfer).ret)
              /\ convert_words_osensa(xfer.data).tag = "Err" => ret.tag = "Err"
        /\ op = "get_osensa_reading" =>
              DropLed(ret) = get_reading(osensa, xfer).ret

C6_Witness ==
    /\ osensa /\ op = "get_reading"
    /\ xfer = XferOk(<<\h0C, \h80>>)
    /\ ret = Err(ErrInvalidMeasurement)

\* C7: the plain decode of the device-error sentinel 0x7FF8 is 255.0
\* degrees C (4080 sixteenths).
C7_SentinelDecodesTo255 ==
    (~osensa /\ op = "get_reading" /\ xfer = XferOk(<<\h7F, \hF8>>)) =>
        ret = Ok(Deg(255))

\* C8: every temperature returned lies between -4096 and 4095 sixteenths,
\* and the mask, shift and OR steps of the decode stay within 16 bits.
C8_TemperatureRange ==
    (GotWord /\ ret.tag = "Ok") =>
        /\ TempOf(ret) \in -4096..4095
        /\ LET masked  == BitAnd(Word, \h7FFF)
               shifted == Shr(masked, 3)
           IN  /\ masked \in 0..32767
               /\ shifted \in 0..4095
               /\ BitOr(shifted, \hF000) \in U16

C8_Witness ==
    /\ ~osensa /\ op = "get_reading"
    /\ xfer = XferOk(<<\h80, \h00>>)
    /\ ret = Ok(-4096)

\* C9: no reading carries the LED level Unknown; a successful reading has
\* one of the four named levels together with a temperature.
C9_UnknownUnreachable ==
    (op = "get_osensa_reading" /\ ret.tag = "Ok") =>
        /\ DOMAIN ret.val = {"temperature", "led_current"}
        /\ ret.val.led_current \in LedCurrentLevel \ {"Unknown"}
        /\ ret.val.temperature \in Int

C9_Witness ==
    /\ op = "get_osensa_reading"
    /\ ret.tag = "Ok"
    /\ ret.val.led_current = "Over2000"
    /\ Word = \hFFFF

\* C10: the extended decode succeeds exactly on the words with D2 set;
\* 0x0004..0x0007 give 0.0 and 0x7FFC..0x7FFF give the plain decode of
\* 0x7FF8.
C10_SuccessIffConfirmed ==
    (osensa /\ GotWord) =>
        /\ ret.tag = "Ok" <=> Bit2(Word) = 1
        /\ Word \in \h0004..\h0007 => ret.tag = "Ok" /\ TempOf(ret) = 0
        /\ Word \in \h7FFC..\h7FFF =>
              /\ ret.tag = "Ok"
              /\ TempOf(ret) = convert_words(<<\h7F, \hF8>>)
        /\ Bit2(\h0000) = 0 /\ Bit2(\h7FF8) = 0

C10_Witness ==
    /\ osensa /\ op = "get_reading"
    /\ xfer = XferOk(<<\h7F, \hFC>>)
    /\ ret = Ok(4095)

====
